---------------------------- MODULE Spec2Model ----------------------------
(***************************************************************************)
(* Pupfi Arcade backend: token ledger, match lifecycle and staking pools.  *)
(*                                                                         *)
(* Every endpoint of main.py is a synchronous handler that the server runs *)
(* on a worker thread, so handlers of different requests interleave.  One  *)
(* step of the model is one call of a database helper (database.py), which *)
(* the document store executes atomically; the local computation of the    *)
(* handler before a helper call belongs to the step of that call, and the  *)
(* first step of a handler is the step that accepts its request.           *)
(***************************************************************************)
EXTENDS Integers, Sequences, FiniteSets, TLC

(***************************************************************************)
(* Bounds of the model.                                                    *)
(***************************************************************************)
MaxReq == 3          \* ledger requests accepted in one behaviour
MaxMatchReq == 4     \* requests of all kinds accepted in one behaviour
MaxAmount == 2       \* largest amount argument of earn / spend / stake
MaxFund == 2         \* largest balance an account holds in the initial state
MaxBoard == 3        \* entries of the leaderboard when it is queried
MaxLimit == 2        \* largest limit argument of a leaderboard query
MaxPlayReq == 2      \* requests accepted in one behaviour of a match in play

(***************************************************************************)
(* Identifiers.  Accounts are the ids of the documents of collection       *)
(* pupfiuser.  Ghost is a well-formed object id that names no document,    *)
(* Malformed is a string that is no object id at all.                      *)
(***************************************************************************)
Procs == {1, 2}
Accounts == {"u1", "u2"}
Ghost == "g0"
Malformed == "zz"
NoneId == "None"

\* database.py _oid: ObjectId(id_val) raises InvalidId on a malformed string
WellFormed(id) == id # Malformed

VARIABLES
    users,        \* collection pupfiuser: account id -> [username, balance, xp]
    txs,          \* collection transaction, in insertion order
    matches,      \* collection match, in insertion order; a match id is an index
    leaderboard,  \* collection leaderboard, in insertion order
    pools,        \* collection stakingpool, in insertion order; a pool id is an index
    pc,           \* per worker: the helper call its handler makes next
    loc,          \* per worker: arguments and local variables of its handler
    resp,         \* per worker: response of its last completed request
    nreq          \* requests accepted so far

vars == <<users, txs, matches, leaderboard, pools, pc, loc, resp, nreq>>

\* schemas.py PupfiUser
PupfiUser(name, balance, xp) == [username |-> name, balance |-> balance, xp |-> xp]

\* the usernames under which the accounts of the initial state were created
UsernameOf == [u \in Accounts |-> IF u = "u1" THEN "alice" ELSE "bob"]

\* schemas.py Transaction
Transaction(u, amt, type, reason) ==
    [user_id |-> u, amount |-> amt, type |-> type, reason |-> reason]

RECURSIVE SumTx(_, _)
\* signed sum of the amounts of the transaction records of user u
SumTx(log, u) ==
    IF log = <<>> THEN 0
    ELSE (IF Head(log).user_id = u THEN Head(log).amount ELSE 0) + SumTx(Tail(log), u)

(***************************************************************************)
(* Python dicts keep insertion order and the store returns a document's    *)
(* fields in the order written, so a dict is a sequence of items [k, v].   *)
(***************************************************************************)
Keys(d) == {d[i].k : i \in 1..Len(d)}

\* d.get(key, default)
Get(d, key, default) ==
    IF key \in Keys(d) THEN d[CHOOSE i \in 1..Len(d) : d[i].k = key].v ELSE default

\* d[key] = val
Put(d, key, val) ==
    IF key \in Keys(d)
    THEN [i \in 1..Len(d) |-> IF d[i].k = key THEN [k |-> key, v |-> val] ELSE d[i]]
    ELSE Append(d, [k |-> key, v |-> val])

Max(a, b) == IF a >= b THEN a ELSE b

\* schemas.py Match, as create_match fills it
NoSeed == -1
MatchDoc(game, creator, reward, secret) ==
    [game_key |-> game, creator_id |-> creator, status |-> "waiting",
     players |-> <<creator>>, scores |-> <<>>, winner_id |-> NoneId,
     reward |-> reward, server_secret |-> secret,
     client_reveal |-> "", final_seed |-> NoSeed, tips_total |-> 0]

\* main.py 315: the document of a new staking pool
PoolDoc(key) == [key |-> key, name |-> key, total_staked |-> 0, participants |-> <<>>]

NoLoc == [op |-> "none", user |-> NoneId, amount |-> 0, reason |-> "", ret |-> "none",
          mid |-> 0, score |-> 0, reveal |-> "", game |-> "",
          match |-> MatchDoc("", NoneId, 0, ""), winner |-> NoneId,
          key |-> "", pid |-> 0, pool |-> PoolDoc(""), docs |-> <<>>, username |-> ""]

Idle(p) == pc[p] = "idle"
Quiescent == \A p \in Procs : Idle(p)

\* the server accepts a request and hands it to the first free worker
Accept(p, bound) ==
    /\ Idle(p)
    /\ \A q \in Procs : q < p => ~Idle(q)
    /\ nreq < bound
    /\ nreq' = nreq + 1

\* worker p is at the helper call named label of the handler it runs
At(p, label) ==
    /\ pc[p] = label
    /\ UNCHANGED nreq

\* the handler of worker p, with locals l, returns (or raises): the worker is
\* free again.  The locals are gone; the arguments of the request stay on
\* record beside the response until the worker takes its next request.
Return(p, l, r) ==
    /\ pc' = [pc EXCEPT ![p] = "idle"]
    /\ loc' = [loc EXCEPT ![p] = [NoLoc EXCEPT !.op = l.op, !.user = l.user,
                                               !.amount = l.amount, !.mid = l.mid,
                                               !.score = l.score, !.reveal = l.reveal,
                                               !.key = l.key, !.docs = l.docs,
                                               !.username = l.username]]
    /\ resp' = [resp EXCEPT ![p] = r]

\* the handler of worker p goes on, with locals l, to the helper call label
Goto(p, l, label) ==
    /\ pc' = [pc EXCEPT ![p] = label]
    /\ loc' = [loc EXCEPT ![p] = l]
    /\ resp' = [resp EXCEPT ![p] = "none"]

(***************************************************************************)
(* database.py increment_field on collection pupfiuser: find_one_and_update *)
(* with $inc; no document matches an absent id, and nothing is changed.    *)
(***************************************************************************)
IncBalance(u, dBalance, dXp) ==
    IF u \in DOMAIN users
    THEN [users EXCEPT ![u].balance = @ + dBalance, ![u].xp = @ + dXp]
    ELSE users

(***************************************************************************)
(* POST /users                                                             *)
(***************************************************************************)
\* request arguments username; the last is shorter than three characters
TooShort == "al"
Usernames == {"alice", "bob", "carol", "dave", TooShort}

\* schemas.py 11: min_length=3, max_length=24
ValidUsername(name) == name # TooShort

\* the ids the store gives to the accounts it inserts
NewAccounts == {"u3", "u4"}

\* database.py find_one on collection pupfiuser by username finds a document
Existing(name) == \E u \in DOMAIN users : users[u].username = name

\* lines 70-73: the lookup by username; PupfiUser(...) raises on a username
\* that fails validation
UserFind(p, l) ==
    /\ UNCHANGED <<users, txs, matches, leaderboard, pools>>
    /\ IF Existing(l.username)
       THEN Return(p, l, "200")
       ELSE IF ~ValidUsername(l.username)
       THEN Return(p, l, "500")
       ELSE Goto(p, l, "user_ins")

CallCreateUser(p) ==
    /\ Cardinality(DOMAIN users) + Cardinality({q \in Procs : pc[q] = "user_ins"})
          < Cardinality(Accounts \cup NewAccounts)
    /\ \E name \in Usernames :
          /\ Accept(p, MaxReq)
          /\ UserFind(p, [NoLoc EXCEPT !.op = "create_user", !.username = name])

\* line 74: the insert of a new account, under a new id
UserIns(p) ==
    /\ At(p, "user_ins")
    /\ LET id == IF "u3" \notin DOMAIN users THEN "u3" ELSE "u4"
       IN  /\ users' = [u \in DOMAIN users \cup {id} |->
                           IF u = id THEN PupfiUser(loc[p].username, 0, 0) ELSE users[u]]
           /\ Goto(p, [loc[p] EXCEPT !.user = id], "user_read")
    /\ UNCHANGED <<txs, matches, leaderboard, pools>>

\* line 75: the new account is read back and returned
UserRead(p) ==
    /\ At(p, "user_read")
    /\ Return(p, loc[p], "200")
    /\ UNCHANGED <<users, txs, matches, leaderboard, pools>>

(***************************************************************************)
(* POST /users/{user_id}/earn                                              *)
(***************************************************************************)
\* lines 88-92: the argument check and the increment
EarnInc(p, l) ==
    /\ UNCHANGED <<txs, matches, leaderboard, pools>>
    /\ IF l.amount <= 0
       THEN Return(p, l, "400 Amount must be positive") /\ UNCHANGED users
       ELSE IF ~WellFormed(l.user)
       THEN Return(p, l, "500") /\ UNCHANGED users
       ELSE IF l.user \notin DOMAIN users
       THEN Return(p, l, "404 User not found") /\ UNCHANGED users
       ELSE /\ users' = IncBalance(l.user, l.amount, l.amount)
            /\ Goto(p, l, "earn_tx")

CallEarn(p) ==
    \E u \in Accounts \cup {Ghost}, a \in 0..MaxAmount :
        /\ Accept(p, MaxReq)
        /\ EarnInc(p, [NoLoc EXCEPT !.op = "earn", !.user = u, !.amount = a,
                                    !.reason = "game_reward"])

\* line 93
EarnTx(p) ==
    /\ At(p, "earn_tx")
    /\ txs' = Append(txs, Transaction(loc[p].user, loc[p].amount, "earn", loc[p].reason))
    /\ Return(p, loc[p], "200")
    /\ UNCHANGED <<users, matches, leaderboard, pools>>

(***************************************************************************)
(* POST /users/{user_id}/spend; also called by create_match, stake_tokens  *)
(* and tip_match, to which it returns at label ret of the locals.  An      *)
(* error it raises ends the calling handler too.                           *)
(***************************************************************************)
\* the balance check, off by one
InsufficientOffByOne(balance, amount) == balance + 1 < amount

\* main.py 104: the balance check on the document read at line 101
Insufficient(balance, amount) == balance < amount

\* lines 99-105: the argument check, the read of the account and the check
\* of its balance
SpendGet(p, l) ==
    /\ UNCHANGED <<users, txs, matches, leaderboard, pools>>
    /\ IF l.amount <= 0
       THEN Return(p, l, "400 Amount must be positive")
       ELSE IF ~WellFormed(l.user)
       THEN Return(p, l, "500")
       ELSE IF l.user \notin DOMAIN users
       THEN Return(p, l, "404 User not found")
       ELSE IF Insufficient(users[l.user].balance, l.amount)
       THEN Return(p, l, "400 Insufficient balance")
       ELSE Goto(p, l, "spend_inc")

CallSpend(p) ==
    \E u \in Accounts \cup {Ghost}, a \in 0..MaxAmount :
        /\ Accept(p, MaxReq)
        /\ SpendGet(p, [NoLoc EXCEPT !.op = "spend", !.user = u, !.amount = a,
                                     !.reason = "entry_fee"])

\* line 106
SpendInc(p) ==
    /\ At(p, "spend_inc")
    /\ users' = IncBalance(loc[p].user, -loc[p].amount, 0)
    /\ Goto(p, loc[p], "spend_tx")
    /\ UNCHANGED <<txs, matches, leaderboard, pools>>

\* the record of a debit written with the amount unsigned
SpendTxUnsigned(p) ==
    /\ At(p, "spend_tx")
    /\ txs' = Append(txs, Transaction(loc[p].user, loc[p].amount, "spend", loc[p].reason))
    /\ IF loc[p].ret = "none" THEN Return(p, loc[p], "200") ELSE Goto(p, loc[p], loc[p].ret)
    /\ UNCHANGED <<users, matches, leaderboard, pools>>

\* lines 107-108
SpendTx(p) ==
    /\ At(p, "spend_tx")
    /\ txs' = Append(txs, Transaction(loc[p].user, -loc[p].amount, "spend", loc[p].reason))
    /\ IF loc[p].ret = "none" THEN Return(p, loc[p], "200") ELSE Goto(p, loc[p], loc[p].ret)
    /\ UNCHANGED <<users, matches, leaderboard, pools>>

(***************************************************************************)
(* Request arguments of the match endpoints.                               *)
(***************************************************************************)
GameKeys == {"pup-run"}
Fees == {0, 2}
Creators == {"u1", Ghost}
Players == Accounts \cup {Ghost, Malformed}
Scores == {-1, 1}
Secrets == {"s1"}
MatchIds == {1}

\* main.py 168: int(entry_fee * 1.8) if entry_fee else 0; int() truncates
\* towards zero
Reward(fee) ==
    IF fee = 0 THEN 0
    ELSE IF fee > 0 THEN (9 * fee) \div 5 ELSE -((9 * (-fee)) \div 5)

\* find_one / update on collection match by id
MatchExists(m) == m \in 1..Len(matches)

\* database.py update_document: $set of the given fields of one document
SetMatch(m, fields) ==
    [matches EXCEPT ![m] = [f \in DOMAIN @ |-> IF f \in DOMAIN fields THEN fields[f] ELSE @[f]]]

InPlayers(m, u) == \E i \in 1..Len(matches[m].players) : matches[m].players[i] = u

(***************************************************************************)
(* POST /matches                                                           *)
(***************************************************************************)
\* lines 162-174: the document is inserted and read back by its new id
CreateIns(p, l) ==
    /\ \E secret \in Secrets :
          matches' = Append(matches, MatchDoc(l.game, l.user, Reward(l.amount), secret))
    /\ Return(p, l, "200")
    /\ UNCHANGED <<users, txs, leaderboard, pools>>

\* create that inserts the match without debiting the entry fee
CallCreateNoDebit(p) ==
    /\ Len(matches) + Cardinality({q \in Procs : ~Idle(q) /\ loc[q].op = "create"})
          < Cardinality(MatchIds)
    /\ \E g \in GameKeys, c \in Creators, fee \in Fees :
          /\ Accept(p, MaxMatchReq)
          /\ CreateIns(p, [NoLoc EXCEPT !.op = "create", !.game = g, !.user = c,
                                        !.amount = fee])

\* lines 160-161: a positive entry fee is debited first
Create(p, fees) ==
    /\ Len(matches) + Cardinality({q \in Procs : ~Idle(q) /\ loc[q].op = "create"})
          < Cardinality(MatchIds)
    /\ \E g \in GameKeys, c \in Creators, fee \in fees :
          /\ Accept(p, MaxMatchReq)
          /\ IF fee > 0
             THEN SpendGet(p, [NoLoc EXCEPT !.op = "create", !.game = g, !.user = c,
                                            !.amount = fee, !.reason = "match_entry",
                                            !.ret = "create_ins"])
             ELSE CreateIns(p, [NoLoc EXCEPT !.op = "create", !.game = g, !.user = c,
                                             !.amount = fee])

\* creates of clients that send no entry fee or a positive one
CallCreate(p) == Create(p, Fees)

\* main.py 147: entry_fee is any int
SignedFees == Fees \cup {-2}

CallCreateSigned(p) == Create(p, SignedFees)

CreateInsAfterFee(p) ==
    /\ At(p, "create_ins")
    /\ CreateIns(p, loc[p])

(***************************************************************************)
(* POST /matches/{match_id}/join                                           *)
(***************************************************************************)
\* join without the membership test of line 184
JoinGetNoMemberTest(p, l) ==
    /\ UNCHANGED <<users, txs, matches, leaderboard, pools>>
    /\ IF ~MatchExists(l.mid)
       THEN Return(p, l, "404 Match not found")
       ELSE IF matches[l.mid].status # "waiting"
       THEN Return(p, l, "400 Match already started")
       ELSE Goto(p, [l EXCEPT !.match = matches[l.mid]], "join_upd")

\* join with the membership test made before the status test
JoinGetMemberFirst(p, l) ==
    /\ UNCHANGED <<users, txs, matches, leaderboard, pools>>
    /\ IF ~MatchExists(l.mid)
       THEN Return(p, l, "404 Match not found")
       ELSE IF InPlayers(l.mid, l.user)
       THEN Return(p, l, "200")
       ELSE IF matches[l.mid].status # "waiting"
       THEN Return(p, l, "400 Match already started")
       ELSE Goto(p, [l EXCEPT !.match = matches[l.mid]], "join_upd")

\* lines 179-185
JoinGet(p, l) ==
    /\ UNCHANGED <<users, txs, matches, leaderboard, pools>>
    /\ IF ~MatchExists(l.mid)
       THEN Return(p, l, "404 Match not found")
       ELSE IF matches[l.mid].status # "waiting"
       THEN Return(p, l, "400 Match already started")
       ELSE IF InPlayers(l.mid, l.user)
       THEN Return(p, l, "200")
       ELSE Goto(p, [l EXCEPT !.match = matches[l.mid]], "join_upd")

Join(p, bound) ==
    \E m \in MatchIds, u \in Players :
        /\ Accept(p, bound)
        /\ JoinGet(p, [NoLoc EXCEPT !.op = "join", !.mid = m, !.user = u])

CallJoin(p) == Join(p, MaxMatchReq)

\* lines 186-188
JoinUpd(p) ==
    /\ At(p, "join_upd")
    /\ matches' = SetMatch(loc[p].mid,
                           [players |-> Append(loc[p].match.players, loc[p].user)])
    /\ Return(p, loc[p], "200")
    /\ UNCHANGED <<users, txs, leaderboard, pools>>

(***************************************************************************)
(* POST /matches/{match_id}/score                                          *)
(***************************************************************************)
\* lines 199-203
ScoreGet(p, l) ==
    /\ UNCHANGED <<users, txs, matches, leaderboard, pools>>
    /\ IF ~MatchExists(l.mid)
       THEN Return(p, l, "404 Match not found")
       ELSE IF ~InPlayers(l.mid, l.user)
       THEN Return(p, l, "403 Not in match")
       ELSE Goto(p, [l EXCEPT !.match = matches[l.mid]],
                 IF l.reveal # "" THEN "score_reveal" ELSE "score_upd")

\* a request whose client_reveal is drawn from reveals; "" stands for a
\* reveal that is absent or empty, which line 206 takes alike
SubmitScore(p, bound, reveals) ==
    \E m \in MatchIds, u \in Players, sc \in Scores, r \in reveals :
        /\ Accept(p, bound)
        /\ ScoreGet(p, [NoLoc EXCEPT !.op = "score", !.mid = m, !.user = u, !.score = sc,
                                     !.reveal = r])

\* score submissions of clients that take no part in commit-reveal
CallScore(p) == SubmitScore(p, MaxMatchReq, {""})

\* line 212: the best score of the player, in the scores read at line 199
BestScore(scores, u, sc) == Put(scores, u, Max(Get(scores, u, 0), sc))

\* lines 211-214
ScoreUpd(p) ==
    /\ At(p, "score_upd")
    /\ matches' = SetMatch(loc[p].mid,
                           [scores |-> BestScore(loc[p].match.scores, loc[p].user,
                                                 loc[p].score)])
    /\ Return(p, loc[p], "200")
    /\ UNCHANGED <<users, txs, leaderboard, pools>>

\* request arguments client_reveal; the first is absent or empty
Reveals == {"", "r1", "r2"}

\* lines 207-208: int(sha256(server_secret + client_reveal), 16) % 10**9,
\* tabulated for the secrets and reveals of the model
FinalSeed(secret, reveal) ==
    CASE secret \o reveal = "s1r1" -> 509830387
      [] secret \o reveal = "s1r2" -> 223104887
      [] OTHER -> 0

\* lines 206-209: a reveal that is not empty is stored with the seed derived
\* from it, whatever the match holds
ScoreReveal(p) ==
    /\ At(p, "score_reveal")
    /\ matches' = SetMatch(loc[p].mid,
                           [client_reveal |-> loc[p].reveal,
                            final_seed |-> FinalSeed(loc[p].match.server_secret,
                                                     loc[p].reveal)])
    /\ Goto(p, loc[p], "score_upd")
    /\ UNCHANGED <<users, txs, leaderboard, pools>>

(***************************************************************************)
(* POST /matches/{match_id}/finish                                         *)
(***************************************************************************)
\* line 229: max(scores.items(), key=lambda x: x[1])[0]: the first item, in
\* the dict's order, among those of the highest score
Winner(scores) ==
    scores[CHOOSE i \in 1..Len(scores) :
              /\ \A j \in 1..Len(scores) : scores[j].v <= scores[i].v
              /\ \A j \in 1..(i - 1) : scores[j].v < scores[i].v].k

\* finish without the test of line 222
FinGetNoFinishedTest(p, l) ==
    /\ UNCHANGED <<users, txs, matches, leaderboard, pools>>
    /\ IF ~MatchExists(l.mid)
       THEN Return(p, l, "404 Match not found")
       ELSE IF matches[l.mid].scores = <<>>
       THEN Goto(p, [l EXCEPT !.match = matches[l.mid]], "fin_upd0")
       ELSE Goto(p, [l EXCEPT !.match = matches[l.mid],
                              !.winner = Winner(matches[l.mid].scores)], "fin_upd")

\* lines 219-229
FinGet(p, l) ==
    /\ UNCHANGED <<users, txs, matches, leaderboard, pools>>
    /\ IF ~MatchExists(l.mid)
       THEN Return(p, l, "404 Match not found")
       ELSE IF matches[l.mid].status = "finished"
       THEN Return(p, l, "200")
       ELSE IF matches[l.mid].scores = <<>>
       THEN Goto(p, [l EXCEPT !.match = matches[l.mid]], "fin_upd0")
       ELSE Goto(p, [l EXCEPT !.match = matches[l.mid],
                              !.winner = Winner(matches[l.mid].scores)], "fin_upd")

Finish(p, bound) ==
    \E m \in MatchIds :
        /\ Accept(p, bound)
        /\ FinGet(p, [NoLoc EXCEPT !.op = "finish", !.mid = m])

CallFinish(p) == Finish(p, MaxMatchReq)

\* a finish without scores that names the creator the winner
FinUpd0CreatorWins(p) ==
    /\ At(p, "fin_upd0")
    /\ matches' = SetMatch(loc[p].mid, [status |-> "finished",
                                        winner_id |-> loc[p].match.creator_id])
    /\ Return(p, loc[p], "200")
    /\ UNCHANGED <<users, txs, leaderboard, pools>>

\* lines 226-228: no score recorded
FinUpd0(p) ==
    /\ At(p, "fin_upd0")
    /\ matches' = SetMatch(loc[p].mid, [status |-> "finished"])
    /\ Return(p, loc[p], "200")
    /\ UNCHANGED <<users, txs, leaderboard, pools>>

\* lines 230-233
FinUpd(p) ==
    /\ At(p, "fin_upd")
    /\ matches' = SetMatch(loc[p].mid, [status |-> "finished", winner_id |-> loc[p].winner])
    /\ Goto(p, loc[p], IF loc[p].match.reward > 0 THEN "fin_inc" ELSE "fin_lb")
    /\ UNCHANGED <<users, txs, leaderboard, pools>>

\* line 234: the payout; _oid raises on a malformed winner id, and the
\* increment matches no document when the winner is no account
FinInc(p) ==
    /\ At(p, "fin_inc")
    /\ UNCHANGED <<txs, matches, leaderboard, pools>>
    /\ IF ~WellFormed(loc[p].winner)
       THEN Return(p, loc[p], "500") /\ UNCHANGED users
       ELSE /\ users' = IncBalance(loc[p].winner, loc[p].match.reward, loc[p].match.reward)
            /\ Goto(p, loc[p], "fin_tx")

\* line 235
FinTx(p) ==
    /\ At(p, "fin_tx")
    /\ txs' = Append(txs, Transaction(loc[p].winner, loc[p].match.reward, "earn", "match_win"))
    /\ Goto(p, loc[p], "fin_lb")
    /\ UNCHANGED <<users, matches, leaderboard, pools>>

\* lines 237-238; schemas.py Leaderboard
FinLb(p) ==
    /\ At(p, "fin_lb")
    /\ leaderboard' = Append(leaderboard,
                             [game_key |-> loc[p].match.game_key, user_id |-> loc[p].winner,
                              score |-> Get(loc[p].match.scores, loc[p].winner, 0),
                              username |-> ""])
    /\ Return(p, loc[p], "200")
    /\ UNCHANGED <<users, txs, matches, pools>>

(***************************************************************************)
(* POST /staking/stake                                                     *)
(***************************************************************************)
PoolKeys == {"k1"}

\* line 312: the reason of the debit, f"stake:{pool_key}"
StakeReason(key) == "stake:" \o key

\* lines 305-312: the argument check, the read of the account and the check
\* of its balance; spend_tokens is called next
StakeGet(p, l) ==
    /\ UNCHANGED <<users, txs, matches, leaderboard, pools>>
    /\ IF l.amount <= 0
       THEN Return(p, l, "400 Amount must be positive")
       ELSE IF ~WellFormed(l.user)
       THEN Return(p, l, "500")
       ELSE IF l.user \notin DOMAIN users
       THEN Return(p, l, "404 User not found")
       ELSE IF Insufficient(users[l.user].balance, l.amount)
       THEN Return(p, l, "400 Insufficient balance")
       ELSE Goto(p, l, "spend_get")

CallStake(p) ==
    \E u \in Accounts \cup {Ghost}, k \in PoolKeys, a \in 0..MaxAmount :
        /\ Accept(p, MaxReq)
        /\ StakeGet(p, [NoLoc EXCEPT !.op = "stake", !.user = u, !.key = k, !.amount = a,
                                     !.reason = StakeReason(k), !.ret = "stake_find"])

\* spend_tokens called by a handler that has made other helper calls before
SpendGetCalled(p) ==
    /\ At(p, "spend_get")
    /\ SpendGet(p, loc[p])

\* database.py find_one on collection stakingpool by key: the first document
\* of that key; 0 when there is none
FindPool(key) ==
    IF \E i \in 1..Len(pools) : pools[i].key = key
    THEN CHOOSE i \in 1..Len(pools) :
            pools[i].key = key /\ \A j \in 1..(i - 1) : pools[j].key # key
    ELSE 0

\* lines 313-314
StakeFind(p) ==
    /\ At(p, "stake_find")
    /\ IF FindPool(loc[p].key) # 0
       THEN Goto(p, [loc[p] EXCEPT !.pid = FindPool(loc[p].key),
                                   !.pool = pools[FindPool(loc[p].key)]], "stake_upd")
       ELSE Goto(p, loc[p], "stake_create")
    /\ UNCHANGED <<users, txs, matches, leaderboard, pools>>

\* lines 315-316
StakeCreate(p) ==
    /\ At(p, "stake_create")
    /\ pools' = Append(pools, PoolDoc(loc[p].key))
    /\ Goto(p, [loc[p] EXCEPT !.pid = Len(pools) + 1], "stake_read")
    /\ UNCHANGED <<users, txs, matches, leaderboard>>

\* line 317
StakeRead(p) ==
    /\ At(p, "stake_read")
    /\ Goto(p, [loc[p] EXCEPT !.pool = pools[loc[p].pid]], "stake_upd")
    /\ UNCHANGED <<users, txs, matches, leaderboard, pools>>

\* database.py update_document: $set of the given fields of one pool
SetPool(i, fields) ==
    [pools EXCEPT ![i] = [f \in DOMAIN @ |-> IF f \in DOMAIN fields THEN fields[f] ELSE @[f]]]

\* a stake that adds to the total the store holds and not to the total read
StakeUpdFreshTotal(p) ==
    /\ At(p, "stake_upd")
    /\ pools' = SetPool(loc[p].pid,
                        [participants |-> Put(loc[p].pool.participants, loc[p].user,
                                              Get(loc[p].pool.participants, loc[p].user, 0)
                                                 + loc[p].amount),
                         total_staked |-> pools[loc[p].pid].total_staked + loc[p].amount])
    /\ Return(p, loc[p], "200")
    /\ UNCHANGED <<users, txs, matches, leaderboard>>

\* lines 318-322
StakeUpd(p) ==
    /\ At(p, "stake_upd")
    /\ pools' = SetPool(loc[p].pid,
                        [participants |-> Put(loc[p].pool.participants, loc[p].user,
                                              Get(loc[p].pool.participants, loc[p].user, 0)
                                                 + loc[p].amount),
                         total_staked |-> loc[p].pool.total_staked + loc[p].amount])
    /\ Return(p, loc[p], "200")
    /\ UNCHANGED <<users, txs, matches, leaderboard>>

(***************************************************************************)
(* GET /leaderboard/{game_key}                                             *)
(***************************************************************************)
BoardGames == {"pup-run", "pup-tug"}
Limits == 0..MaxLimit

\* database.py 65-67: a document as the helper returns it, with the id under
\* which the store holds it; ids grow in insertion order
WithId(coll) ==
    [i \in 1..Len(coll) |-> [id |-> i, game_key |-> coll[i].game_key,
                             user_id |-> coll[i].user_id, score |-> coll[i].score,
                             username |-> coll[i].username]]

\* database.py get_documents on collection leaderboard with filter game_key:
\* the matching documents in insertion order, cut to limit when limit is
\* truthy
GetDocuments(coll, game, limit) ==
    LET found == SelectSeq(WithId(coll), LAMBDA d : d.game_key = game)
    IN  IF limit # 0
        THEN SubSeq(found, 1, IF limit < Len(found) THEN limit ELSE Len(found))
        ELSE found

\* the place of document d in a list sorted by score, highest first, behind
\* the documents of the same score
InsertByScore(sorted, d) ==
    LET n == Cardinality({i \in 1..Len(sorted) : sorted[i].score >= d.score})
    IN  SubSeq(sorted, 1, n) \o <<d>> \o SubSeq(sorted, n + 1, Len(sorted))

RECURSIVE SortByScore(_)
\* main.py 115: docs.sort(key=score, reverse=True); the sort of a Python list
\* is stable, also in reverse
SortByScore(docs) ==
    IF docs = <<>> THEN <<>>
    ELSE InsertByScore(SortByScore(SubSeq(docs, 1, Len(docs) - 1)), docs[Len(docs)])

\* lines 112-116: the handler makes one helper call and returns its documents
\* sorted
CallLeaderboard(p) ==
    \E g \in BoardGames, limit \in Limits :
        /\ Accept(p, MaxReq)
        /\ Return(p, [NoLoc EXCEPT !.op = "leaderboard", !.key = g, !.amount = limit,
                                   !.docs = SortByScore(GetDocuments(leaderboard, g, limit))],
                  "200")
        /\ UNCHANGED <<users, txs, matches, leaderboard, pools>>

(***************************************************************************)
(* POST /tips                                                              *)
(***************************************************************************)
\* lines 340-345: the argument check and the read of the match;
\* spend_tokens is called next
TipGet(p, l) ==
    /\ UNCHANGED <<users, txs, matches, leaderboard, pools>>
    /\ IF l.amount <= 0
       THEN Return(p, l, "400 Amount must be positive")
       ELSE IF ~MatchExists(l.mid)
       THEN Return(p, l, "404 Match not found")
       ELSE Goto(p, [l EXCEPT !.match = matches[l.mid]], "spend_get")

Tip(p, bound) ==
    \E m \in MatchIds, u \in Accounts \cup {Ghost}, a \in 0..MaxAmount :
        /\ Accept(p, bound)
        /\ TipGet(p, [NoLoc EXCEPT !.op = "tip", !.mid = m, !.user = u, !.amount = a,
                                   !.reason = "tip", !.ret = "tip_upd"])

\* lines 346-348: the total is computed from the match read at line 342
TipUpd(p) ==
    /\ At(p, "tip_upd")
    /\ matches' = SetMatch(loc[p].mid,
                           [tips_total |-> loc[p].match.tips_total + loc[p].amount])
    /\ Return(p, loc[p], "200")
    /\ UNCHANGED <<users, txs, leaderboard, pools>>

(***************************************************************************)
(* Initial state: the accounts exist (POST /users) with the balance of a   *)
(* new account, or the first holds MaxFund tokens earned through           *)
(* POST /users/{id}/earn, whose transaction record is in the log.          *)
(***************************************************************************)
FundTx(u, f) == IF f > 0 THEN <<Transaction(u, f, "earn", "game_reward")>> ELSE <<>>

Init ==
    /\ \E f \in {0, MaxFund} :
          /\ users = [u \in Accounts |-> IF u = "u1" THEN PupfiUser(UsernameOf[u], f, f)
                                                     ELSE PupfiUser(UsernameOf[u], 0, 0)]
          /\ txs = FundTx("u1", f)
    /\ matches = <<>>
    /\ leaderboard = <<>>
    /\ pools = <<>>
    /\ pc = [p \in Procs |-> "idle"]
    /\ loc = [p \in Procs |-> NoLoc]
    /\ resp = [p \in Procs |-> "none"]
    /\ nreq = 0

\* the ledger endpoints
NextLedger ==
    \E p \in Procs :
        \/ CallEarn(p) \/ EarnTx(p)
        \/ CallSpend(p) \/ SpendInc(p) \/ SpendTx(p)

SpecLedger == Init /\ [][NextLedger]_vars

\* the creation of accounts
NextUsers ==
    \E p \in Procs : CallCreateUser(p) \/ UserIns(p) \/ UserRead(p)

SpecUsers == Init /\ [][NextUsers]_vars

\* the match endpoints; create_match debits its entry fee through spend_tokens
NextMatch ==
    \E p \in Procs :
        \/ CallCreate(p) \/ SpendInc(p) \/ SpendTx(p) \/ CreateInsAfterFee(p)
        \/ CallJoin(p) \/ JoinUpd(p)
        \/ CallScore(p) \/ ScoreUpd(p)
        \/ CallFinish(p) \/ FinUpd0(p) \/ FinUpd(p)
        \/ FinInc(p) \/ FinTx(p) \/ FinLb(p)

SpecMatch == Init /\ [][NextMatch]_vars

\* the match endpoints, with creates of any entry fee
NextCreate ==
    \E p \in Procs :
        \/ CallCreateSigned(p) \/ SpendInc(p) \/ SpendTx(p) \/ CreateInsAfterFee(p)
        \/ CallJoin(p) \/ JoinUpd(p)
        \/ CallScore(p) \/ ScoreUpd(p)
        \/ CallFinish(p) \/ FinUpd0(p) \/ FinUpd(p)
        \/ FinInc(p) \/ FinTx(p) \/ FinLb(p)

SpecCreate == Init /\ [][NextCreate]_vars

\* the match endpoints together with the credit endpoint of the ledger
NextEconomy ==
    \/ NextMatch
    \/ \E p \in Procs : CallEarn(p) \/ EarnTx(p)

SpecEconomy == Init /\ [][NextEconomy]_vars

\* the staking endpoint, with the credit endpoint that funds the stakers
NextStake ==
    \E p \in Procs :
        \/ CallStake(p) \/ SpendGetCalled(p) \/ SpendInc(p) \/ SpendTx(p)
        \/ StakeFind(p) \/ StakeCreate(p) \/ StakeRead(p) \/ StakeUpd(p)
        \/ CallEarn(p) \/ EarnTx(p)

SpecStake == Init /\ [][NextStake]_vars

(***************************************************************************)
(* A match in play: u1 (alice) has created match 1 with an entry fee of     *)
(* Fees, which she had earned before, u2 (bob) has joined it and holds      *)
(* MaxFund tokens he has earned; alice has submitted no score yet, or the   *)
(* score -1, which line 212 records as 0.  The requests that follow are     *)
(* score submissions with or without a reveal, joins, finishes and tips.    *)
(***************************************************************************)
InitPlay ==
    /\ \E fee \in Fees, secret \in Secrets, scores \in {<<>>, BestScore(<<>>, "u1", -1)} :
          /\ users = [u \in Accounts |-> IF u = "u1" THEN PupfiUser(UsernameOf[u], 0, fee)
                                                     ELSE PupfiUser(UsernameOf[u], MaxFund,
                                                                    MaxFund)]
          /\ txs = FundTx("u1", fee)
                     \o (IF fee > 0
                         THEN <<Transaction("u1", -fee, "spend", "match_entry")>>
                         ELSE <<>>)
                     \o FundTx("u2", MaxFund)
          /\ matches = <<[MatchDoc("pup-run", "u1", Reward(fee), secret)
                             EXCEPT !.players = <<"u1", "u2">>, !.scores = scores]>>
    /\ leaderboard = <<>>
    /\ pools = <<>>
    /\ pc = [p \in Procs |-> "idle"]
    /\ loc = [p \in Procs |-> NoLoc]
    /\ resp = [p \in Procs |-> "none"]
    /\ nreq = 0

(***************************************************************************)
(* A leaderboard in use: matches of two games, created without entry fee   *)
(* by the accounts, have been finished, each by its creator with the score *)
(* she had submitted, and every finish has written its leaderboard entry.  *)
(***************************************************************************)
BoardScores == {0, 1}
Entries == [game_key : BoardGames, user_id : Accounts, score : BoardScores, username : {""}]

\* the match whose finish wrote leaderboard entry e
FinishedMatch(e) ==
    [MatchDoc(e.game_key, e.user_id, 0, "s1")
        EXCEPT !.status = "finished", !.winner_id = e.user_id,
               !.scores = <<[k |-> e.user_id, v |-> e.score]>>]

InitBoard ==
    /\ \E n \in 0..MaxBoard : \E board \in [1..n -> Entries] :
          /\ leaderboard = board
          /\ matches = [i \in 1..n |-> FinishedMatch(board[i])]
    /\ users = [u \in Accounts |-> PupfiUser(UsernameOf[u], 0, 0)]
    /\ txs = <<>>
    /\ pools = <<>>
    /\ pc = [p \in Procs |-> "idle"]
    /\ loc = [p \in Procs |-> NoLoc]
    /\ resp = [p \in Procs |-> "none"]
    /\ nreq = 0

NextBoard == \E p \in Procs : CallLeaderboard(p)

SpecBoard == InitBoard /\ [][NextBoard]_vars

PlayJoin(p) == Join(p, MaxPlayReq)
PlayScore(p) == SubmitScore(p, MaxPlayReq, Reveals)
PlayFinish(p) == Finish(p, MaxPlayReq)
PlayTip(p) == Tip(p, MaxPlayReq)

NextPlay ==
    \E p \in Procs :
        \/ PlayJoin(p) \/ JoinUpd(p)
        \/ PlayScore(p) \/ ScoreReveal(p) \/ ScoreUpd(p)
        \/ PlayFinish(p) \/ FinUpd0(p) \/ FinUpd(p)
        \/ FinInc(p) \/ FinTx(p) \/ FinLb(p)
        \/ PlayTip(p) \/ SpendGetCalled(p) \/ SpendInc(p) \/ SpendTx(p) \/ TipUpd(p)

SpecPlay == InitPlay /\ [][NextPlay]_vars

(***************************************************************************)
(* Steps of a behaviour, as the claims speak of them.                      *)
(***************************************************************************)
\* worker p accepts a request in this step and makes its first helper call
Accepted(p) ==
    /\ nreq' = nreq + 1
    /\ Idle(p)
    /\ \A q \in Procs : q < p => ~Idle(q)

\* worker p makes the helper call named label in this step
Steps(p, label) == pc[p] = label /\ pc'[p] # pc[p]

(***************************************************************************)
(* Ledger claims                                                           *)
(***************************************************************************)
\* schemas.py PupfiUser.balance: the balance of a new account
InitialBalance == 0

\* C1: the balance of every account is never negative, in any reachable
\* state, under any interleaving of earn and spend calls.
C1_BalanceNeverNegative == \A u \in DOMAIN users : users[u].balance >= 0

\* worker p completes a successful credit or debit in this step by writing
\* its transaction record: earn_tokens, spend_tokens, or the payout of
\* finish_match to a winner that is an account
CreditOrDebitDone(p) ==
    \/ Steps(p, "earn_tx")
    \/ Steps(p, "spend_tx")
    \/ Steps(p, "fin_tx") /\ loc[p].winner \in DOMAIN users

RecordOf(p) ==
    CASE pc[p] = "earn_tx" -> Transaction(loc[p].user, loc[p].amount, "earn", loc[p].reason)
      [] pc[p] = "spend_tx" -> Transaction(loc[p].user, -loc[p].amount, "spend", loc[p].reason)
      [] OTHER -> Transaction(loc[p].winner, loc[p].match.reward, "earn", "match_win")

\* C3: every successful credit or debit appends exactly one transaction
\* record carrying the signed amount of the operation (positive for a credit,
\* negative for a debit), and whenever no handler is in progress the sum of
\* the transaction amounts of an account is its balance minus its initial
\* balance.
C3_OneRecordPerOp ==
    /\ [](Quiescent => \A u \in DOMAIN users :
                          SumTx(txs, u) = users[u].balance - InitialBalance)
    /\ [][\A p \in Procs :
             CreditOrDebitDone(p) =>
                 /\ txs' = Append(txs, RecordOf(p))
                 /\ RecordOf(p).amount # 0
                 /\ (RecordOf(p).amount > 0) = (RecordOf(p).type = "earn")]_vars

\* credits through earn_tokens and through the match payout and a debit have
\* all completed, and their records are in the log
C3_Witness ==
    /\ Quiescent
    /\ \E i, j, k \in 1..Len(txs) :
          /\ i > 1 /\ txs[i].reason = "game_reward"
          /\ txs[j].type = "spend"
          /\ txs[k].reason = "match_win" /\ txs[k].user_id \in DOMAIN users

\* worker p reads the account and checks its balance in this step, in
\* spend_tokens called as an endpoint or by create_match
SpendChecks(p) ==
    /\ Accepted(p)
    /\ loc'[p].op \in {"spend", "create"}
    /\ loc'[p].amount > 0

\* C4: a debit whose amount exceeds the balance it reads fails with the
\* insufficient-balance error, changes no balance and no xp and appends no
\* transaction record.
C4_OverdraftRejected ==
    [][\A p \in Procs :
          (/\ SpendChecks(p)
           /\ loc'[p].user \in DOMAIN users
           /\ users[loc'[p].user].balance < loc'[p].amount)
          => /\ resp'[p] = "400 Insufficient balance"
             /\ pc'[p] = "idle"
             /\ users' = users
             /\ txs' = txs]_vars

\* a debit of more than a positive balance has been rejected
C4_Witness ==
    \E p \in Procs : /\ Idle(p) /\ loc[p].op = "spend"
                      /\ resp[p] = "400 Insufficient balance"
                      /\ loc[p].user \in DOMAIN users
                      /\ users[loc[p].user].balance > 0
                      /\ users[loc[p].user].balance < loc[p].amount

(***************************************************************************)
(* Match claims                                                            *)
(***************************************************************************)
RECURSIVE SumReason(_, _)
\* sum of the amounts of the transaction records with the given reason
SumReason(log, reason) ==
    IF log = <<>> THEN 0
    ELSE (IF Head(log).reason = reason THEN Head(log).amount ELSE 0)
         + SumReason(Tail(log), reason)

RECURSIVE SumRewards(_)
\* sum of the rewards of the matches that have a winner
SumRewards(ms) ==
    IF ms = <<>> THEN 0
    ELSE (IF Head(ms).winner_id # NoneId THEN Head(ms).reward ELSE 0) + SumRewards(Tail(ms))

\* C2: under any interleaving of finish calls and score submissions the
\* reward of a match is credited at most once: the total credited with
\* reason match_win never exceeds the rewards of the matches that have a
\* winner.
C2_RewardPaidAtMostOnce == SumReason(txs, "match_win") <= SumRewards(matches)

IsMaxScore(scores, u) ==
    /\ u \in Keys(scores)
    /\ \A i \in 1..Len(scores) : scores[i].v <= Get(scores, u, 0)

\* C5: a finish of an unfinished match with a recorded score makes the match
\* finished with a winner that is a player holding the maximum recorded
\* score, credits that winner exactly the reward when the reward is positive,
\* and appends exactly one leaderboard entry with the winner's score.
C5_FinishPaysWinner ==
    [][\A p \in Procs :
          /\ Steps(p, "fin_upd") =>
                /\ matches'[loc[p].mid].status = "finished"
                /\ matches'[loc[p].mid].winner_id = loc[p].winner
                /\ InPlayers(loc[p].mid, loc[p].winner)
                /\ IsMaxScore(loc[p].match.scores, loc[p].winner)
                /\ pc'[p] = (IF loc[p].match.reward > 0 THEN "fin_inc" ELSE "fin_lb")
          /\ Steps(p, "fin_inc") =>
                /\ loc[p].winner \in DOMAIN users
                /\ users'[loc[p].winner].balance
                      = users[loc[p].winner].balance + loc[p].match.reward
                /\ pc'[p] = "fin_tx"
          /\ Steps(p, "fin_tx") => pc'[p] = "fin_lb"
          /\ Steps(p, "fin_lb") =>
                /\ Len(leaderboard') = Len(leaderboard) + 1
                /\ leaderboard'[Len(leaderboard')].user_id = loc[p].winner
                /\ leaderboard'[Len(leaderboard')].score
                      = Get(loc[p].match.scores, loc[p].winner, 0)]_vars

\* worker p makes a helper call of finish_match in this step
FinishSteps(p) ==
    \/ Accepted(p) /\ loc'[p].op = "finish"
    \/ loc[p].op = "finish" /\ ~Idle(p) /\ pc'[p] # pc[p]

\* C6: a finish of a match for which no score was ever submitted makes the
\* match finished with winner_id unset and credits no balance, appends no
\* transaction record and no leaderboard entry, whatever the reward.
C6_FinishWithoutScores ==
    [][\A p \in Procs :
          (/\ FinishSteps(p)
           /\ MatchExists(loc'[p].mid)
           /\ matches[loc'[p].mid].scores = <<>>)
          => /\ users' = users
             /\ txs' = txs
             /\ leaderboard' = leaderboard
             /\ matches'[loc'[p].mid].winner_id = NoneId
             /\ matches'[loc'[p].mid].scores = <<>>
             /\ pc'[p] \in {"idle", "fin_upd0"}
             /\ pc'[p] = "idle" =>
                   /\ resp'[p] = "200"
                   /\ matches'[loc'[p].mid].status = "finished"]_vars

\* a match with a positive reward was finished without any score
C6_Witness ==
    \E p \in Procs :
        /\ Idle(p) /\ loc[p].op = "finish" /\ resp[p] = "200"
        /\ MatchExists(loc[p].mid)
        /\ matches[loc[p].mid].status = "finished"
        /\ matches[loc[p].mid].scores = <<>>
        /\ matches[loc[p].mid].reward > 0
        /\ matches[loc[p].mid].winner_id = NoneId
        /\ leaderboard = <<>>

\* C8: the recorded best score of a player never decreases and never
\* disappears, under any interleaving of submit_score calls.
C8_ScoresNeverDecrease ==
    [][\A m \in 1..Len(matches) : \A u \in Keys(matches[m].scores) :
          /\ u \in Keys(matches'[m].scores)
          /\ Get(matches'[m].scores, u, 0) >= Get(matches[m].scores, u, 0)]_vars

NoDuplicate(seq) == \A i, j \in 1..Len(seq) : seq[i] = seq[j] => i = j

\* C9: a join by a user who is already in the player list of a waiting match
\* returns the match and changes nothing, and no player list ever holds the
\* same id twice.
C9_JoinIdempotent ==
    /\ [](\A m \in 1..Len(matches) : NoDuplicate(matches[m].players))
    /\ [][\A p \in Procs :
             (/\ Accepted(p)
              /\ loc'[p].op = "join"
              /\ MatchExists(loc'[p].mid)
              /\ matches[loc'[p].mid].status = "waiting"
              /\ InPlayers(loc'[p].mid, loc'[p].user))
             => /\ resp'[p] = "200"
                /\ pc'[p] = "idle"
                /\ matches' = matches
                /\ users' = users /\ txs' = txs /\ leaderboard' = leaderboard]_vars

\* the creator of a waiting match has joined it again, after another player
\* had joined
C9_Witness ==
    \E p \in Procs :
        /\ Idle(p) /\ loc[p].op = "join" /\ resp[p] = "200"
        /\ MatchExists(loc[p].mid)
        /\ matches[loc[p].mid].status = "waiting"
        /\ loc[p].user = matches[loc[p].mid].creator_id
        /\ Len(matches[loc[p].mid].players) = 2

\* C10: a join of a match that is not waiting fails with the invalid-state
\* error and changes nothing, also when the user is a player of the match; a
\* join of a match that does not exist fails with the not-found error.
C10_JoinRejected ==
    [][\A p \in Procs :
          (Accepted(p) /\ loc'[p].op = "join") =>
             /\ ~MatchExists(loc'[p].mid) =>
                   /\ resp'[p] = "404 Match not found"
                   /\ pc'[p] = "idle"
                   /\ matches' = matches
             /\ (MatchExists(loc'[p].mid) /\ matches[loc'[p].mid].status # "waiting") =>
                   /\ resp'[p] = "400 Match already started"
                   /\ pc'[p] = "idle"
                   /\ matches' = matches]_vars

\* a player of a finished match was refused when joining it again
C10_Witness ==
    \E p \in Procs :
        /\ Idle(p) /\ loc[p].op = "join" /\ resp[p] = "400 Match already started"
        /\ MatchExists(loc[p].mid)
        /\ matches[loc[p].mid].status = "finished"
        /\ InPlayers(loc[p].mid, loc[p].user)

\* C11: client_reveal and final_seed of a match are set at most once: once a
\* submit_score carrying a reveal has stored them, no later submit_score
\* changes either of them (the first reveal wins).
C11_FirstRevealWins ==
    [][\A m \in 1..Len(matches) :
          matches[m].client_reveal # "" =>
             /\ matches'[m].client_reveal = matches[m].client_reveal
             /\ matches'[m].final_seed = matches[m].final_seed]_vars

\* C12: finished is absorbing.  A finish of a match that is finished returns
\* the match and changes nothing (no status, no winner_id, no balance, no
\* transaction record, no leaderboard entry), and no step of a join, a score
\* submission, a finish or a tip gives a finished match another status.
C12_FinishedAbsorbing ==
    [][/\ \A m \in 1..Len(matches) :
             matches[m].status = "finished" => matches'[m].status = "finished"
       /\ \A p \in Procs :
             (/\ Accepted(p)
              /\ loc'[p].op = "finish"
              /\ MatchExists(loc'[p].mid)
              /\ matches[loc'[p].mid].status = "finished")
             => /\ resp'[p] = "200"
                /\ pc'[p] = "idle"
                /\ matches' = matches
                /\ users' = users /\ txs' = txs
                /\ leaderboard' = leaderboard /\ pools' = pools]_vars

\* a finish has marked the match finished and has not yet written its
\* leaderboard entry; a second finish, accepted meanwhile, has returned: it
\* found the match finished, for with scores recorded a finish of an
\* unfinished match returns only after it wrote a leaderboard entry
C12_Witness ==
    /\ pc[1] \in {"fin_inc", "fin_tx", "fin_lb"}
    /\ Idle(2) /\ loc[2].op = "finish" /\ resp[2] = "200"
    /\ matches[loc[2].mid].status = "finished"
    /\ matches[loc[2].mid].scores # <<>>
    /\ leaderboard = <<>>

\* the debit of the entry fee of the create that worker p runs
EntryDebit(p) == Transaction(loc[p].user, -loc[p].amount, "spend", "match_entry")

\* C13: a create with a positive entry fee debits the creator first.  When
\* the debit fails, because the creator is no account or holds less than the
\* fee, the create fails with the error of the debit, no match is inserted,
\* and balances and transaction log are unchanged; a match with a fee is
\* inserted only once the debit is on record.
C13_CreateFailsWithDebit ==
    [][\A p \in Procs :
          /\ (Accepted(p) /\ loc'[p].op = "create" /\ loc'[p].amount > 0) =>
                /\ matches' = matches
                /\ loc'[p].user \notin DOMAIN users =>
                      /\ resp'[p] = "404 User not found"
                      /\ pc'[p] = "idle"
                      /\ users' = users /\ txs' = txs
                /\ (/\ loc'[p].user \in DOMAIN users
                    /\ users[loc'[p].user].balance < loc'[p].amount) =>
                      /\ resp'[p] = "400 Insufficient balance"
                      /\ pc'[p] = "idle"
                      /\ users' = users /\ txs' = txs
          /\ (Steps(p, "create_ins") /\ loc[p].amount > 0) =>
                \E i \in 1..Len(txs) : txs[i] = EntryDebit(p)]_vars

\* the create of an account that holds less than the entry fee has failed,
\* no match exists and every balance is what the transaction log records
C13_Witness ==
    \E p \in Procs :
        /\ Idle(p) /\ loc[p].op = "create" /\ loc[p].amount > 0
        /\ resp[p] = "400 Insufficient balance"
        /\ loc[p].user \in DOMAIN users
        /\ users[loc[p].user].balance < loc[p].amount
        /\ matches = <<>>
        /\ \A u \in DOMAIN users : SumTx(txs, u) = users[u].balance

\* worker p inserts a match in this step, in the create it runs
Inserts(p) ==
    /\ Accepted(p) \/ Steps(p, "create_ins")
    /\ loc'[p].op = "create"
    /\ Len(matches') = Len(matches) + 1

\* the creator of match m has a debit on record whose fee yields the reward
FeeDebited(m) ==
    \E i \in 1..Len(txs) :
        /\ txs[i].user_id = matches[m].creator_id
        /\ txs[i].type = "spend" /\ txs[i].reason = "match_entry"
        /\ txs[i].amount < 0
        /\ matches[m].reward = (9 * (-txs[i].amount)) \div 5

\* C14: a match created with entry fee f stores the reward floor(f * 1.8),
\* that is (9 * f) div 5, which is zero for f = 0; a stored reward is never
\* negative, is positive only when a positive entry fee was debited from the
\* creator, and never changes after the creation.
C14_RewardOfFee ==
    /\ [](\A m \in 1..Len(matches) :
             /\ matches[m].reward >= 0
             /\ matches[m].reward > 0 => FeeDebited(m))
    /\ [][/\ \A p \in Procs :
                Inserts(p) =>
                   matches'[Len(matches')].reward = (9 * loc'[p].amount) \div 5
          /\ \A m \in 1..Len(matches) : matches'[m].reward = matches[m].reward]_vars

\* C15: while a match is waiting its player list only grows: a user who is
\* in the list stays in it in every later state, also when joins of
\* different users run concurrently.
C15_PlayersOnlyGrow ==
    [][\A m \in 1..Len(matches) :
          matches[m].status = "waiting" =>
             \A i \in 1..Len(matches[m].players) :
                \E j \in 1..Len(matches'[m].players) :
                   matches'[m].players[j] = matches[m].players[i]]_vars

\* C16: in every state every key of the scores mapping of a match is in the
\* player list of the match, and so is the winner_id once it is set; a score
\* submission by a user who is not in the player list fails with the
\* forbidden error and changes nothing.
C16_ScoresOfPlayersOnly ==
    /\ [](\A m \in 1..Len(matches) :
             /\ \A u \in Keys(matches[m].scores) : InPlayers(m, u)
             /\ matches[m].winner_id # NoneId => InPlayers(m, matches[m].winner_id))
    /\ [][\A p \in Procs :
             (/\ Accepted(p)
              /\ loc'[p].op = "score"
              /\ MatchExists(loc'[p].mid)
              /\ ~InPlayers(loc'[p].mid, loc'[p].user))
             => /\ resp'[p] = "403 Not in match"
                /\ pc'[p] = "idle"
                /\ matches' = matches]_vars

\* C17: every transaction record belongs to an account whose balance the
\* operation that wrote the record has changed: the log holds no record of a
\* user id that is no account.
C17_RecordsOfAccountsOnly == \A i \in 1..Len(txs) : txs[i].user_id \in DOMAIN users

\* C20: in every state of a finished match that has a winner_id the score
\* recorded for the winner is the maximum of the scores mapping, and a
\* winner_id that is set never changes, whatever score submissions and
\* finishes follow or run beside the first finish.
C20_WinnerHoldsMaximum ==
    /\ [](\A m \in 1..Len(matches) :
             (matches[m].status = "finished" /\ matches[m].winner_id # NoneId)
             => IsMaxScore(matches[m].scores, matches[m].winner_id))
    /\ [][\A m \in 1..Len(matches) :
             matches[m].winner_id # NoneId
             => matches'[m].winner_id = matches[m].winner_id]_vars

(***************************************************************************)
(* Account claims                                                          *)
(***************************************************************************)
\* C19: usernames are unique across accounts in every reachable state, also
\* after concurrent creations of one new username; the creation of a user
\* whose username exists returns the existing account, creates none and
\* raises no error.
C19_UsernamesUnique ==
    /\ [](\A a, b \in DOMAIN users : users[a].username = users[b].username => a = b)
    /\ [][\A p \in Procs :
             (Accepted(p) /\ loc'[p].op = "create_user" /\ Existing(loc'[p].username))
             => /\ resp'[p] = "200"
                /\ pc'[p] = "idle"
                /\ users' = users]_vars

(***************************************************************************)
(* Leaderboard claims                                                      *)
(***************************************************************************)
\* C18: for every game key and every limit >= 0 the leaderboard query returns
\* only entries of that game, ordered by score descending with entries of
\* equal score in insertion order, and at most limit entries.
C18_QueryResult ==
    \A p \in Procs :
        (Idle(p) /\ loc[p].op = "leaderboard") =>
            LET docs == loc[p].docs
            IN  /\ \A i \in 1..Len(docs) :
                      /\ docs[i].id \in 1..Len(leaderboard)
                      /\ docs[i] = WithId(leaderboard)[docs[i].id]
                      /\ docs[i].game_key = loc[p].key
                /\ \A i \in 1..(Len(docs) - 1) :
                      \/ docs[i].score > docs[i + 1].score
                      \/ docs[i].score = docs[i + 1].score /\ docs[i].id < docs[i + 1].id
                /\ Len(docs) <= loc[p].amount

(***************************************************************************)
(* Staking claims                                                          *)
(***************************************************************************)
RECURSIVE SumValues(_)
\* sum(d.values())
SumValues(d) == IF d = <<>> THEN 0 ELSE Head(d).v + SumValues(Tail(d))

\* C7: in every reachable state the total_staked of every staking pool
\* document equals the sum of the values of its participants mapping.
C7_TotalIsSumOfParticipants ==
    \A i \in 1..Len(pools) : pools[i].total_staked = SumValues(pools[i].participants)

\* stakes of two users into one pool have run concurrently, each reading
\* the pool before the other wrote it, and both have returned
C7_Witness ==
    /\ Quiescent
    /\ \A p \in Procs : loc[p].op = "stake" /\ resp[p] = "200"
    /\ \E p, q \in Procs : loc[p].user # loc[q].user
    /\ Len(pools) = 1
    /\ SumReason(txs, StakeReason("k1")) < -pools[1].total_staked
\* no worker runs a stake call
NoStakeInProgress == \A p \in Procs : ~(loc[p].op = "stake" /\ ~Idle(p))

\* C21: staked tokens are conserved: in every state where no stake call is in
\* progress there is at most one pool document per pool key, and the
\* total_staked of each pool is the sum of the amounts debited with reason
\* stake:<its key>, after any interleaving of stake calls.
C21_StakedTokensConserved ==
    NoStakeInProgress =>
        /\ \A i, j \in 1..Len(pools) : pools[i].key = pools[j].key => i = j
        /\ \A i \in 1..Len(pools) :
              pools[i].total_staked = -SumReason(txs, StakeReason(pools[i].key))
=============================================================================
